---- MODULE Spec2Model ----
(***************************************************************************)
(* Scene mode, gesture classification and particle interpolation of the    *)
(* interactive Christmas tree (src/script.js).                             *)
(*                                                                         *)
(* Numbers.  JavaScript numbers are doubles; the model computes with the   *)
(* exact values:                                                           *)
(*   - landmark coordinates are integers in hundredths of the normalised   *)
(*     image (0.05 is 5, 0.25 is 25, 0.4 is 40);                           *)
(*   - an angle of STATE.rotation is a pair <<a, b>> of rationals, a + b*PI *)
(*     radians;                                                            *)
(*   - every other quantity (random draws, layout targets, coordinates) is *)
(*     a rational <<n, d>> in lowest terms with d > 0.                     *)
(* Math.pow, Math.cos, Math.sin, Math.acos and Math.hypot are computed     *)
(* exactly; the inputs are drawn from sets on which their results are      *)
(* rational (fifth powers for pow(., 0.8), quarter turns for cos and sin,  *)
(* Pythagorean pairs for hypot and for sin(acos(.))), and on which the     *)
(* double the program computes falls on the same side of every threshold   *)
(* as the exact value.                                                     *)
(* The point in front of the camera, which Particle.update obtains from    *)
(* the inverse of mainGroup.matrixWorld, has irrational coordinates for    *)
(* the rotations a frame produces.  A position is therefore kept as a      *)
(* rational vector plus a rational combination of such points, each named  *)
(* by its rotation; Vector3.lerp is linear, so this is exact.              *)
(*                                                                         *)
(* Scope.  The model holds the mode, the focus target, the hand signal,    *)
(* STATE.rotation, the particles with their two layout targets and their   *)
(* positions, mainGroup.matrixWorld, the clock and the photo files in      *)
(* flight.  A particle's own rotation, scale and spin speed, the star      *)
(* pulse and the background are written by animate and read only by the    *)
(* renderer; they are left out.                                            *)
(***************************************************************************)
EXTENDS Integers, Sequences, FiniteSets

VARIABLES
    mode,           \* STATE.mode
    focusTarget,    \* STATE.focusTarget: a mesh handle, or Null
    hand,           \* STATE.hand: [detected, x, y], x and y in hundredths
    rotation,       \* STATE.rotation: [x, y], angles
    particleSystem, \* the particles, in creation order
    loading,        \* photo files read but not yet added to the scene
    elapsedTime,    \* clock.elapsedTime, in tenths of a second
    matrixWorld,    \* mainGroup.matrixWorld: the rotation [x, y] it was composed from
    last            \* history: the last handler that ran, its input, and what it found

vars ==
    <<mode, focusTarget, hand, rotation, particleSystem, loading, elapsedTime, matrixWorld, last>>

----------------------------------------------------------------------------
(* Bounds of the model. *)

\* decorations created by createParticles (CONFIG.particles.count in the program)
NumDecor == 1
\* dust particles created by createDust (CONFIG.particles.dustCount in the program)
NumDust == 1
\* photos uploaded in one session
MaxPhotos == 2
\* the length of a session, in tenths of a second
MaxElapsed == 2

----------------------------------------------------------------------------
(* Rational arithmetic: the model of JavaScript's number operations. *)

Abs(n) == IF n < 0 THEN -n ELSE n

RECURSIVE Gcd(_, _)
Gcd(a, b) == IF b = 0 THEN a ELSE Gcd(b, a % b)

Q(n, d) ==
    LET g == Gcd(Abs(n), Abs(d))
        s == IF d < 0 THEN -1 ELSE 1
    IN  <<(s * n) \div g, (s * d) \div g>>

Num(n) == <<n, 1>>

RAdd(a, b) ==
    LET l == (a[2] \div Gcd(a[2], b[2])) * b[2]
    IN  Q(a[1] * (l \div a[2]) + b[1] * (l \div b[2]), l)

RNeg(a) == <<-a[1], a[2]>>

RSub(a, b) == RAdd(a, RNeg(b))

RMul(a, b) ==
    LET g1 == Gcd(Abs(a[1]), b[2])
        g2 == Gcd(Abs(b[1]), a[2])
    IN  IF a[1] = 0 \/ b[1] = 0 THEN <<0, 1>>
        ELSE <<(a[1] \div g1) * (b[1] \div g2), (a[2] \div g2) * (b[2] \div g1)>>

RLt(a, b) == a[1] * b[2] < b[1] * a[2]

RLe(a, b) == a[1] * b[2] <= b[1] * a[2]

\* Math.max
RMax(a, b) == IF RLt(a, b) THEN b ELSE a

\* Math.floor
Floor(a) == a[1] \div a[2]

\* the exact integer root of a perfect square / fifth power
Root2(n) == CHOOSE r \in 0..n : r * r = n

Root5(n) == CHOOSE r \in 0..64 : r * r * r * r * r = n

\* Math.sqrt, on squares of rationals
RSqrt(a) == <<Root2(a[1]), Root2(a[2])>>

\* Math.pow(u, 0.8), on fifth powers of rationals: ((n/d)^5)^0.8 = (n/d)^4
Pow08(u) ==
    LET n == Root5(u[1])
        d == Root5(u[2])
    IN  <<n * n * n * n, d * d * d * d>>

\* Math.cos(a * Math.PI) and Math.sin(a * Math.PI), a a whole number of quarter turns
CosPi(a) ==
    LET q == Floor(RMul(Num(2), a)) % 4
    IN  CASE q = 0 -> Num(1) [] q = 2 -> Num(-1) [] OTHER -> Num(0)

SinPi(a) ==
    LET q == Floor(RMul(Num(2), a)) % 4
    IN  CASE q = 1 -> Num(1) [] q = 3 -> Num(-1) [] OTHER -> Num(0)

----------------------------------------------------------------------------
(* THREE.Vector3 *)

Vec(x, y, z) == <<x, y, z>>

Origin == Vec(Num(0), Num(0), Num(0))

\* A point of mainGroup's frame: the vector at, plus w times the point in front of
\* the camera under the rotation rot, for every <<rot, w>> of front (one term per
\* rotation, none with weight zero).
Fixed(v) == [at |-> v, front |-> {}]

\* the weight of the point in front of the camera under rot, in the point p
Weight(p, rot) ==
    IF \E t \in p.front : t[1] = rot
    THEN (CHOOSE t \in p.front : t[1] = rot)[2]
    ELSE Num(0)

\* Vector3 addition
VAdd(p, q) ==
    LET rots == {t[1] : t \in p.front \cup q.front}
        sums == {<<rot, RAdd(Weight(p, rot), Weight(q, rot))>> : rot \in rots}
    IN  [ at |-> [i \in 1..3 |-> RAdd(p.at[i], q.at[i])],
          front |-> {t \in sums : t[2][1] # 0} ]

\* Vector3 multiplication by a scalar
VScale(p, k) ==
    [ at |-> [i \in 1..3 |-> RMul(p.at[i], k)],
      front |-> {t \in {<<s[1], RMul(s[2], k)>> : s \in p.front} : t[2][1] # 0} ]

\* Vector3 subtraction
VSub(p, q) == VAdd(p, VScale(q, Num(-1)))

\* Vector3.lerp: this += (v - this) * alpha
VLerp(v, target, alpha) == VAdd(v, VScale(VSub(target, v), alpha))

----------------------------------------------------------------------------
(* Angles, a + b*PI radians as <<a, b>>, and STATE.rotation *)

Angle(a, b) == <<a, b>>

AAdd(p, q) == <<RAdd(p[1], q[1]), RAdd(p[2], q[2])>>

ASub(p, q) == <<RSub(p[1], q[1]), RSub(p[2], q[2])>>

AScale(p, k) == <<RMul(p[1], k), RMul(p[2], k)>>

\* cur += (goal - cur) * rate
Track(cur, goal, rate) == AAdd(cur, AScale(ASub(goal, cur), rate))

\* the rotation of STATE after construction, and of an identity matrix
Rest == [x |-> Angle(Num(0), Num(0)), y |-> Angle(Num(0), Num(0))]

\* STATE.rotation after the frame of dt tenths of a second (lines 435-441), for the
\* mode m and the hand signal h
Rotate(rot, m, h, dt) ==
    IF m = "SCATTER" /\ h.detected
    THEN [ y |-> Track(rot.y, Angle(Num(0), Q(h.x * 9, 1000)), Q(3 * dt, 10)),
           x |-> Track(rot.x, Angle(Num(0), Q(h.y * 25, 10000)), Q(3 * dt, 10)) ]
    ELSE [ y |-> AAdd(rot.y, Angle(Q((IF m = "TREE" THEN 3 ELSE 1) * dt, 100), Num(0))),
           x |-> Track(rot.x, Angle(Num(0), Num(0)), Q(2 * dt, 10)) ]

----------------------------------------------------------------------------
(* CONFIG *)

treeHeight == 24

treeRadius == 8

Null == 0

Modes == {"TREE", "SCATTER", "FOCUS"}

----------------------------------------------------------------------------
(* Random draws.  A tape holds the values Math.random() returns to one call *)
(* of Particle.calculatePositions, in the order of the calls:              *)
(*   t  (line 155)   a  (line 158)   r  (line 159)                          *)
(*   s  (line 162)   th (line 163)   ph (line 164)                          *)

Tape(t, a, r, s, th, ph) == [t |-> t, a |-> a, r |-> r, s |-> s, th |-> th, ph |-> ph]

\* the two tapes used when the scene is populated or a photo is added
TapeA == Tape(<<0, 1>>, <<0, 1>>, <<1, 2>>, <<0, 1>>, <<0, 1>>, <<1, 2>>)

TapeB == Tape(<<1, 32>>, <<3, 8>>, <<3, 4>>, <<1, 2>>, <<1, 4>>, <<4, 5>>)

SceneTapes == {TapeA, TapeB}

\* draws of (t, a) on which the spiral angle t*50*PI + a*PI is a quarter turn:
\* t = 0, t = (1/2)^5 and t = (63/64)^5
SpiralDraws ==
    { <<<<0, 1>>, <<0, 1>>>>, <<<<0, 1>>, <<1, 2>>>>,
      <<<<1, 32>>, <<3, 8>>>>, <<<<1, 32>>, <<7, 8>>>>,
      <<<<992436543, 1073741824>>, <<440551, 8388608>>>>,
      <<<<992436543, 1073741824>>, <<4634855, 8388608>>>> }

JitterDraws == {<<0, 1>>, <<1, 2>>, <<3, 4>>, <<99, 100>>}

ShellDraws == {<<0, 1>>, <<1, 2>>, <<99, 100>>}

ThetaDraws == {<<0, 1>>, <<1, 4>>, <<3, 4>>}

PhiDraws == {<<0, 1>>, <<1, 10>>, <<1, 2>>, <<4, 5>>}

\* the tapes the layout generator is checked on
LayoutTapes ==
    { Tape(sp[1], sp[2], r, s, th, ph) :
        sp \in SpiralDraws, r \in JitterDraws, s \in ShellDraws,
        th \in ThetaDraws, ph \in PhiDraws }

\* draws of Math.random() for the decoration's kind (line 227)
KindDrawA == <<1, 2>>

KindDrawB == <<99, 100>>

----------------------------------------------------------------------------
(* Particle *)

\* TreeRadiusAt with the jitter doubled: 0.8 + u * 0.8
TreeRadiusAtWideJitter(t, u) ==
    LET rMax == RMax(<<1, 2>>, RMul(Num(treeRadius), RSub(Num(1), t)))
    IN  RMul(rMax, RAdd(<<4, 5>>, RMul(u, <<4, 5>>)))

\* the radius of a tree-layout point, from the height fraction t and the draw u
TreeRadiusAt(t, u) ==
    LET rMax == RMax(<<1, 2>>, RMul(Num(treeRadius), RSub(Num(1), t)))
    IN  RMul(rMax, RAdd(<<4, 5>>, RMul(u, <<2, 5>>)))

\* the radius of the scatter shell, from the draw u
ScatterRadiusAt(isDust, u) ==
    IF isDust THEN RAdd(Num(12), RMul(u, Num(20)))
              ELSE RAdd(Num(8), RMul(u, Num(12)))

calculatePositions(isDust, tape) ==
    LET h == Num(treeHeight)
        t == Pow08(tape.t)
        y == RSub(RMul(t, h), RMul(h, <<1, 2>>))
        angle == RAdd(RMul(t, Num(50)), tape.a)          \* in units of PI
        r == TreeRadiusAt(t, tape.r)
        rScatter == ScatterRadiusAt(isDust, tape.s)
        theta == RMul(tape.th, Num(2))                   \* in units of PI
        cosPhi == RSub(RMul(Num(2), tape.ph), Num(1))    \* cos(acos(2u - 1))
        sinPhi == RSqrt(RSub(Num(1), RMul(cosPhi, cosPhi)))
    IN  [ posTree |-> Vec(RMul(CosPi(angle), r), y, RMul(SinPi(angle), r)),
          posScatter |-> Vec(RMul(rScatter, RMul(sinPhi, CosPi(theta))),
                             RMul(rScatter, RMul(sinPhi, SinPi(theta))),
                             RMul(rScatter, cosPhi)) ]

\* new Particle(mesh, type, isDust): a fresh mesh sits at the origin of its group
Particle(mesh, type, isDust, tape) ==
    LET pos == calculatePositions(isDust, tape)
    IN  [ mesh |-> mesh, type |-> type, isDust |-> isDust,
          posTree |-> pos.posTree, posScatter |-> pos.posScatter,
          position |-> Fixed(Origin) ]

\* new THREE.Vector3(0, 2, 35).applyMatrix4(invMatrix), invMatrix the inverse of a
\* matrixWorld composed from the rotation rot (Euler order XYZ, z = 0): the point
\* in front of the camera, in mainGroup's frame.  With  d = 35 cos x - 2 sin x  it is
\*     (-d sin y,  2 cos x + 35 sin x,  d cos y)
\* which is (0, 2, 35) for the identity and is kept by name for any other rotation.
FocusPoint(rot) ==
    IF rot = Rest
    THEN Fixed(Vec(Num(0), Num(2), Num(35)))
    ELSE [at |-> Origin, front |-> {<<rot, Num(1)>>}]

\* the point Particle.update interpolates towards
Target(p, m, focusTargetMesh) ==
    IF m = "FOCUS"
    THEN IF p.mesh = focusTargetMesh THEN FocusPoint(matrixWorld) ELSE Fixed(p.posScatter)
    ELSE IF m = "SCATTER" THEN Fixed(p.posScatter) ELSE Fixed(p.posTree)

LerpSpeed(p, m, focusTargetMesh) ==
    IF m = "FOCUS" /\ p.mesh = focusTargetMesh THEN 5 ELSE 2

\* update moving by target * alpha instead of (target - position) * alpha
updateAdditive(p, dt, m, focusTargetMesh) ==
    LET target == Target(p, m, focusTargetMesh)
        alpha == Q(LerpSpeed(p, m, focusTargetMesh) * dt, 10)
    IN  [p EXCEPT !.position = VAdd(p.position, VScale(target, alpha))]

\* Particle.update(dt, mode, focusTargetMesh), dt in tenths of a second
update(p, dt, m, focusTargetMesh) ==
    LET target == Target(p, m, focusTargetMesh)
        lerpSpeed == LerpSpeed(p, m, focusTargetMesh)
    IN  [p EXCEPT !.position = VLerp(p.position, target, Q(lerpSpeed * dt, 10))]

----------------------------------------------------------------------------
(* Detection results.  A hand is the landmarks processGestures reads, each *)
(* <<x, y>> in hundredths: 0 wrist, 4 thumb tip, 8 index tip, 9 middle     *)
(* finger base, 12, 16, 20 the other fingertips.                           *)

Landmarks == {0, 4, 8, 9, 12, 16, 20}

Wrist == <<50, 100>>

\* thumb tip relative to index tip: at distance 0, 5 and 30.  At distance 5 the
\* double pinchDist depends on the rounding of the coordinates; with this offset it
\* is 0.05 or just above for every spread below, as the exact value is.
PinchOffsets == {<<0, 0>>, <<4, 3>>, <<30, 0>>}

\* <<index tip, other fingertips>>: distance from the wrist, in hundredths; the mean
\* is 0.2125, 0.25, 0.4 and 0.4375
Spreads == {<<10, 25>>, <<25, 25>>, <<40, 40>>, <<55, 40>>}

MakeHand(off, spread) ==
    [i \in Landmarks |->
        CASE i = 0 -> Wrist
          [] i = 4 -> <<Wrist[1] + off[1], Wrist[2] - spread[1] + off[2]>>
          [] i = 8 -> <<Wrist[1], Wrist[2] - spread[1]>>
          [] i = 9 -> <<Wrist[1] - 10, Wrist[2] - 20>>
          [] OTHER -> <<Wrist[1], Wrist[2] - spread[2]>>]

Hands == {MakeHand(off, spread) : off \in PinchOffsets, spread \in Spreads}

\* what handLandmarker.detectForVideo returns: no hand, or one (numHands: 1)
Results == {[landmarks |-> <<>>]} \cup {[landmarks |-> <<lm>>] : lm \in Hands}

\* Math.hypot, on Pythagorean pairs
Hypot(dx, dy) == Root2(dx * dx + dy * dy)

\* Math.hypot(lm[4].x - lm[8].x, lm[4].y - lm[8].y), in hundredths
PinchDist(lm) == Hypot(lm[4][1] - lm[8][1], lm[4][2] - lm[8][2])

\* the sum over the fingertips 8, 12, 16, 20 of the distance to the wrist, in
\* hundredths: four times avgDist
SumDist(lm) ==
    Hypot(lm[8][1] - lm[0][1], lm[8][2] - lm[0][2])
    + Hypot(lm[12][1] - lm[0][1], lm[12][2] - lm[0][2])
    + Hypot(lm[16][1] - lm[0][1], lm[16][2] - lm[0][2])
    + Hypot(lm[20][1] - lm[0][1], lm[20][2] - lm[0][2])

\* pinchDist < 0.05
IsPinch(lm) == PinchDist(lm) < 5

\* IsClosed with the threshold at 0.2
IsClosedBelowFifth(lm) == SumDist(lm) < 4 * 20

\* IsClosed with the threshold included
IsClosedInclusive(lm) == SumDist(lm) <= 4 * 25

\* avgDist < 0.25
IsClosed(lm) == SumDist(lm) < 4 * 25

\* IsOpen with the threshold at 0.45
IsOpenAboveWide(lm) == SumDist(lm) > 4 * 45

\* avgDist > 0.4
IsOpen(lm) == SumDist(lm) > 4 * 40

\* Photos without the filter
PhotosUnfiltered(ps) == ps

\* particleSystem.filter(p => p.type === 'PHOTO')
Photos(ps) == SelectSeq(ps, LAMBDA p : p.type = "PHOTO")

\* photos[Math.floor(Math.random() * photos.length)].mesh, for the draw u
PickMesh(photos, u) == photos[Floor(RMul(u, Num(Len(photos)))) + 1].mesh

\* draws of Math.random() for the photo to focus (line 347)
PickDraws == {<<0, 1>>, <<1, 2>>, <<99, 100>>}

\* Math.random() is only called when a pinch leaves a mode other than FOCUS and a
\* photo exists
PickDrawsFor(result, m, photos) ==
    IF Len(result.landmarks) > 0 /\ IsPinch(result.landmarks[1])
       /\ m # "FOCUS" /\ Len(photos) > 0
    THEN PickDraws ELSE {<<0, 1>>}

\* the kind of decoration createParticles makes for the draw rand
KindOf(rand) ==
    IF RLt(rand, <<4, 10>>) THEN "BOX"
    ELSE IF RLt(rand, <<7, 10>>) THEN "GOLD_BOX"
    ELSE IF RLt(rand, <<92, 100>>) THEN "GOLD_SPHERE"
    ELSE IF RLt(rand, <<97, 100>>) THEN "RED"
    ELSE "CANE"

----------------------------------------------------------------------------
(* The history variable: the handler that ran last, with the state it found. *)

NoResult == [landmarks |-> <<>>]

Saw(op, result, dt) ==
    [ op |-> op, result |-> result, dt |-> dt, mode |-> mode,
      focusTarget |-> focusTarget, count |-> Len(particleSystem) ]

----------------------------------------------------------------------------
(* The state after init(): createParticles, then createDust. *)

\* the i-th element of a cyclic sequence of draws
Cycle(draws, i) == draws[((i - 1) % Len(draws)) + 1]

\* createParticles: NumDecor decorations; the i-th takes its draws from kinds and tapes
createParticles(kinds, tapes) ==
    [i \in 1..NumDecor |-> Particle(i, KindOf(Cycle(kinds, i)), FALSE, Cycle(tapes, i))]

\* createDust: NumDust dust particles appended to ps
createDust(ps, tapes) ==
    ps \o [i \in 1..NumDust |-> Particle(Len(ps) + i, "DUST", TRUE, Cycle(tapes, i))]

\* the scenes init() can build, for two runs of the random generator
Scenes ==
    { createDust(createParticles(<<KindDrawA, KindDrawB>>, <<TapeA, TapeB>>), <<TapeB, TapeA>>),
      createDust(createParticles(<<KindDrawB, KindDrawA>>, <<TapeB, TapeA>>), <<TapeA, TapeB>>) }

Init ==
    /\ mode = "TREE"
    /\ focusTarget = Null
    /\ hand = [detected |-> FALSE, x |-> 0, y |-> 0]
    /\ rotation = Rest
    /\ particleSystem \in Scenes
    /\ loading = 0
    /\ elapsedTime = 0
    /\ matrixWorld = Rest
    /\ last = [op |-> "init", result |-> NoResult, dt |-> 0, mode |-> "TREE",
               focusTarget |-> Null, count |-> 0]

----------------------------------------------------------------------------
(* Handlers *)

\* handleImageUpload: one FileReader per chosen file
handleImageUpload(n) ==
    /\ Len(Photos(particleSystem)) + loading + n <= MaxPhotos
    /\ loading' = loading + n
    /\ last' = Saw("handleImageUpload", NoResult, 0)
    /\ UNCHANGED <<mode, focusTarget, hand, rotation, particleSystem, elapsedTime, matrixWorld>>

\* addPhotoToScene storing the particle over the last one instead of pushing it
addPhotoToSceneOverLast(tape) ==
    /\ loading > 0
    /\ loading' = loading - 1
    /\ particleSystem' =
          [particleSystem EXCEPT ![Len(particleSystem)] =
              Particle(Len(particleSystem), "PHOTO", FALSE, tape)]
    /\ last' = Saw("addPhotoToScene", NoResult, 0)
    /\ UNCHANGED <<mode, focusTarget, hand, rotation, elapsedTime, matrixWorld>>

\* the TextureLoader callback of one file: addPhotoToScene(texture)
addPhotoToScene(tape) ==
    /\ loading > 0
    /\ loading' = loading - 1
    /\ particleSystem' =
          Append(particleSystem, Particle(Len(particleSystem) + 1, "PHOTO", FALSE, tape))
    /\ last' = Saw("addPhotoToScene", NoResult, 0)
    /\ UNCHANGED <<mode, focusTarget, hand, rotation, elapsedTime, matrixWorld>>

\* PinchTransition without the test that the mode is not FOCUS already
PinchTransitionAlways(u) ==
    LET photos == Photos(particleSystem)
    IN  [ mode |-> "FOCUS",
          focusTarget |-> IF Len(photos) > 0 THEN PickMesh(photos, u) ELSE focusTarget ]

\* the pinch branch of processGestures (lines 344-348): the mode and focus target
\* it leaves, for the draw u of Math.random()
PinchTransition(u) ==
    IF mode # "FOCUS"
    THEN LET photos == Photos(particleSystem)
         IN  [ mode |-> "FOCUS",
               focusTarget |-> IF Len(photos) > 0 THEN PickMesh(photos, u)
                                                  ELSE focusTarget ]
    ELSE [mode |-> mode, focusTarget |-> focusTarget]

\* GestureTransition with the closed and open hand leaving the focus target as it is
GestureTransitionKeepingFocus(lm, u) ==
    IF IsPinch(lm) THEN PinchTransition(u)
    ELSE IF IsClosed(lm) THEN [mode |-> "TREE", focusTarget |-> focusTarget]
    ELSE IF IsOpen(lm) THEN [mode |-> "SCATTER", focusTarget |-> focusTarget]
    ELSE [mode |-> mode, focusTarget |-> focusTarget]

\* the mode and focus target processGestures leaves for the hand lm (lines 343-350)
GestureTransition(lm, u) ==
    IF IsPinch(lm) THEN PinchTransition(u)
    ELSE IF IsClosed(lm) THEN [mode |-> "TREE", focusTarget |-> Null]
    ELSE IF IsOpen(lm) THEN [mode |-> "SCATTER", focusTarget |-> Null]
    ELSE [mode |-> mode, focusTarget |-> focusTarget]

\* processGestures(result); u is the draw of Math.random() at line 347
processGestures(result, u) ==
    /\ last' = Saw("processGestures", result, 0)
    /\ IF Len(result.landmarks) > 0
       THEN LET lm == result.landmarks[1]
                to == GestureTransition(lm, u)
            IN  /\ hand' = [detected |-> TRUE, x |-> (lm[9][1] - 50) * 2,
                            y |-> (lm[9][2] - 50) * 2]
                /\ mode' = to.mode
                /\ focusTarget' = to.focusTarget
       ELSE /\ hand' = [hand EXCEPT !.detected = FALSE]
            /\ UNCHANGED <<mode, focusTarget>>
    /\ UNCHANGED <<rotation, particleSystem, loading, elapsedTime, matrixWorld>>

\* animate releasing the focused photo at the end of the frame
animateDroppingFocus(dt) ==
    /\ elapsedTime' = elapsedTime + dt
    /\ rotation' = Rotate(rotation, mode, hand, dt)
    /\ particleSystem' =
          [i \in 1..Len(particleSystem) |-> update(particleSystem[i], dt, mode, focusTarget)]
    /\ matrixWorld' = rotation'
    /\ focusTarget' = Null
    /\ last' = Saw("animate", NoResult, dt)
    /\ UNCHANGED <<mode, hand, loading>>

\* animate(): dt = clock.getDelta(); STATE.rotation moves and is copied to mainGroup;
\* every particle is updated, the focused one against the matrixWorld of the frame
\* before; composer.render() then recomposes matrixWorld from the new rotation
animate(dt) ==
    /\ elapsedTime' = elapsedTime + dt
    /\ rotation' = Rotate(rotation, mode, hand, dt)
    /\ particleSystem' =
          [i \in 1..Len(particleSystem) |-> update(particleSystem[i], dt, mode, focusTarget)]
    /\ matrixWorld' = rotation'
    /\ last' = Saw("animate", NoResult, dt)
    /\ UNCHANGED <<mode, focusTarget, hand, loading>>

\* frame times, in tenths of a second
Deltas == {0, 2, 5}

Next ==
    \/ \E n \in 1..MaxPhotos : handleImageUpload(n)
    \/ addPhotoToScene(Cycle(<<TapeA, TapeB>>, Len(particleSystem)))
    \/ \E result \in Results :
          \E u \in PickDrawsFor(result, mode, Photos(particleSystem)) :
             processGestures(result, u)
    \/ \E dt \in Deltas : elapsedTime + dt <= MaxElapsed /\ animate(dt)

Spec == Init /\ [][Next]_vars

----------------------------------------------------------------------------
(* The layout generator on its own: particles are constructed over every    *)
(* layout tape.                                                             *)

InitLayout ==
    /\ mode = "TREE"
    /\ focusTarget = Null
    /\ hand = [detected |-> FALSE, x |-> 0, y |-> 0]
    /\ rotation = Rest
    /\ particleSystem = <<>>
    /\ loading = 0
    /\ elapsedTime = 0
    /\ matrixWorld = Rest
    /\ last = [op |-> "init", result |-> NoResult, dt |-> 0, mode |-> "TREE",
               focusTarget |-> Null, count |-> 0]

\* new Particle(mesh, type, isDust) over the draws of tape
construct(type, isDust, tape) ==
    /\ particleSystem = <<>>
    /\ particleSystem' = <<Particle(1, type, isDust, tape)>>
    /\ last' = Saw("Particle", NoResult, 0)
    /\ UNCHANGED <<mode, focusTarget, hand, rotation, loading, elapsedTime, matrixWorld>>

NextLayout ==
    \E tape \in LayoutTapes :
        \/ construct("PHOTO", FALSE, tape)
        \/ construct("DUST", TRUE, tape)

LayoutSpec == InitLayout /\ [][NextLayout]_vars

----------------------------------------------------------------------------
(* The per-frame updater on its own: render frames over a scene with one    *)
(* photo, before its first frame, in every mode, focus target and hand      *)
(* signal a session can hold then.                                          *)

\* the length of a run of render frames, in tenths of a second
MaxRun == 7

InitUpdate ==
    /\ particleSystem \in
          {Append(ps, Particle(Len(ps) + 1, "PHOTO", FALSE, tape)) :
              ps \in Scenes, tape \in SceneTapes}
    /\ \E held \in {<<m, Null>> : m \in Modes}
                    \cup {<<"FOCUS", particleSystem[Len(particleSystem)].mesh>>} :
          mode = held[1] /\ focusTarget = held[2]
    /\ hand \in {[detected |-> FALSE, x |-> 0, y |-> 0], [detected |-> TRUE, x |-> -20, y |-> 60]}
    /\ rotation = Rest
    /\ loading = 0
    /\ elapsedTime = 0
    /\ matrixWorld = Rest
    /\ last = [op |-> "init", result |-> NoResult, dt |-> 0, mode |-> mode,
               focusTarget |-> focusTarget, count |-> Len(particleSystem)]

NextUpdate ==
    \E dt \in Deltas : elapsedTime + dt <= MaxRun /\ animate(dt)

UpdateSpec == InitUpdate /\ [][NextUpdate]_vars

----------------------------------------------------------------------------
(* Properties *)

\* the last handler was processGestures and it was given a hand
SawHand == last.op = "processGestures" /\ Len(last.result.landmarks) > 0

\* the landmarks of that hand
SeenHand == last.result.landmarks[1]

\* the meshes of the particles of type PHOTO
PhotoMeshes ==
    {particleSystem[i].mesh : i \in {j \in 1..Len(particleSystem) : particleSystem[j].type = "PHOTO"}}

\* the distance of a point from the tree's axis; one of x, z is zero on quarter turns
HorizontalRadius(v) == RSqrt(RAdd(RMul(v[1], v[1]), RMul(v[3], v[3])))

\* the radii of the tree-layout points of the particles
TreeRadii == {HorizontalRadius(particleSystem[i].posTree) : i \in 1..Len(particleSystem)}

\* C1: in every reachable state, STATE.focusTarget is non-null only while STATE.mode
\* is FOCUS.
C1_FocusTargetOnlyInFocus == focusTarget # Null => mode = "FOCUS"

\* a photo is focused, and a render frame has run since
C1_Witness ==
    /\ focusTarget \in PhotoMeshes
    /\ mode = "FOCUS"
    /\ last.op = "animate" /\ last.dt > 0

\* C2: after processGestures handles a hand with pinch distance below 0.05 while the
\* mode is TREE or SCATTER, the mode is FOCUS; the focus target is the mesh of one
\* of the PHOTO particles if there is one, and null if there is none.
C2_PinchEntersFocus ==
    (SawHand /\ PinchDist(SeenHand) < 5 /\ last.mode \in {"TREE", "SCATTER"})
    => /\ mode = "FOCUS"
       /\ IF PhotoMeshes # {} THEN focusTarget \in PhotoMeshes ELSE focusTarget = Null

\* a pinch in SCATTER mode with two photos focused the second one
C2_Witness ==
    /\ SawHand /\ PinchDist(SeenHand) < 5 /\ last.mode = "SCATTER"
    /\ Cardinality(PhotoMeshes) = 2
    /\ focusTarget = particleSystem[Len(particleSystem)].mesh

\* C3, as claimed: after processGestures handles a hand whose mean fingertip
\* distance is below 0.25, the mode is TREE and the focus target is null.
C3_ClosedHandGivesTree ==
    (SawHand /\ SumDist(SeenHand) < 100) => (mode = "TREE" /\ focusTarget = Null)

\* C3, amended: after processGestures handles a hand whose pinch distance is at
\* least 0.05 and whose mean fingertip distance is below 0.25, the mode is TREE and
\* the focus target is null, whatever the mode was.
C3_ClosedHandWithoutPinchGivesTree ==
    (SawHand /\ PinchDist(SeenHand) >= 5 /\ SumDist(SeenHand) < 100)
    => (mode = "TREE" /\ focusTarget = Null)

\* a closed hand without pinch ended a focus on a photo
C3_Witness ==
    /\ SawHand /\ PinchDist(SeenHand) >= 5 /\ SumDist(SeenHand) < 100
    /\ last.mode = "FOCUS" /\ last.focusTarget # Null
    /\ mode = "TREE"

\* C4, as claimed: after processGestures handles a hand whose mean fingertip
\* distance is above 0.4, the mode is SCATTER and the focus target is null.
C4_OpenHandGivesScatter ==
    (SawHand /\ SumDist(SeenHand) > 160) => (mode = "SCATTER" /\ focusTarget = Null)

\* C4, amended: after processGestures handles a hand whose pinch distance is at
\* least 0.05 and whose mean fingertip distance is above 0.4, the mode is SCATTER
\* and the focus target is null, whatever the mode was.
C4_OpenHandWithoutPinchGivesScatter ==
    (SawHand /\ PinchDist(SeenHand) >= 5 /\ SumDist(SeenHand) > 160)
    => (mode = "SCATTER" /\ focusTarget = Null)

\* an open hand without pinch ended a focus on a photo
C4_Witness ==
    /\ SawHand /\ PinchDist(SeenHand) >= 5 /\ SumDist(SeenHand) > 160
    /\ last.mode = "FOCUS" /\ last.focusTarget # Null
    /\ mode = "SCATTER"

\* C5: a detection frame leaves the mode and the focus target as they were when no
\* hand is detected (hand.detected is then false), and when a hand is detected with
\* pinch distance at least 0.05 and mean fingertip distance in [0.25, 0.4].
C5_NeutralFrameKeepsMode ==
    /\ (last.op = "processGestures" /\ Len(last.result.landmarks) = 0)
       => (mode = last.mode /\ focusTarget = last.focusTarget /\ ~hand.detected)
    /\ (SawHand /\ PinchDist(SeenHand) >= 5
        /\ SumDist(SeenHand) >= 100 /\ SumDist(SeenHand) <= 160)
       => (mode = last.mode /\ focusTarget = last.focusTarget)

\* a hand at pinch distance 0.05 and mean fingertip distance 0.25, the least values
\* of the neutral band, left SCATTER mode standing
C5_Witness ==
    /\ SawHand /\ PinchDist(SeenHand) = 5 /\ SumDist(SeenHand) = 100
    /\ last.mode = "SCATTER" /\ mode = "SCATTER"

\* C6, as claimed: the radius of every tree-layout point is non-negative and at most
\* CONFIG.particles.treeRadius.
C6_TreeRadiusWithinTreeRadius ==
    \A r \in TreeRadii : RLe(Num(0), r) /\ RLe(r, Num(treeRadius))

\* C6, amended: the radius of every tree-layout point is non-negative and at most
\* 1.2 times CONFIG.particles.treeRadius (9.6).
C6_TreeRadiusWithinJitter ==
    \A r \in TreeRadii : RLe(Num(0), r) /\ RLe(r, RMul(<<6, 5>>, Num(treeRadius)))

\* a tree-layout point beyond the tree radius
C6_Witness == \E r \in TreeRadii : RLt(Num(treeRadius), r)

\* C7: addPhotoToScene leaves one particle more than it found, the added one of type
\* PHOTO, and no handler leaves fewer particles than it found.
C7_UploadAddsOnePhoto ==
    /\ last.op = "addPhotoToScene"
       => /\ Len(particleSystem) = last.count + 1
          /\ particleSystem[Len(particleSystem)].type = "PHOTO"
    /\ last.op # "init" => Len(particleSystem) >= last.count

\* the second photo of a session was added
C7_Witness ==
    /\ last.op = "addPhotoToScene"
    /\ Cardinality(PhotoMeshes) = 2

\* C8: an update of a particle whose position equals its interpolation target (for
\* the mode, the focus target and the orientation of the frame) leaves the position
\* unchanged, for every frame time.
C8_UpdateIdempotentAtConvergence ==
    [][\A i \in 1..Len(particleSystem) :
          particleSystem[i].position = Target(particleSystem[i], mode, focusTarget)
          => particleSystem'[i].position = particleSystem[i].position]_vars

\* a frame of 0.2 s has run on particles that the 0.5 s frame before it had brought
\* onto their targets
C8_Witness ==
    /\ last.op = "animate" /\ last.dt = 2 /\ elapsedTime = 7
    /\ \E i \in 1..Len(particleSystem) :
          /\ particleSystem[i].mesh # focusTarget
          /\ particleSystem[i].position = Target(particleSystem[i], mode, focusTarget)
          /\ particleSystem[i].position # Fixed(Origin)

\* C9: only processGestures changes the mode and the focus target; the mode is
\* always one of TREE, SCATTER and FOCUS, and is TREE after init().
C9_OnlyGesturesWriteMode ==
    /\ mode \in Modes
    /\ last.op = "init" => mode = "TREE"
    /\ last.op \notin {"init", "processGestures"}
       => (mode = last.mode /\ focusTarget = last.focusTarget)

\* a render frame ran while a photo was focused
C9_Witness ==
    /\ last.op = "animate" /\ last.dt > 0
    /\ last.mode = "FOCUS" /\ last.focusTarget # Null
    /\ \E i \in 1..Len(particleSystem) : particleSystem[i].position # Fixed(Origin)

\* C10: a pinch handled while the mode is FOCUS changes neither the mode nor the
\* focus target; a null focus target stays null even when photos exist.
C10_PinchInFocusKeepsTarget ==
    (SawHand /\ PinchDist(SeenHand) < 5 /\ last.mode = "FOCUS")
    => (mode = "FOCUS" /\ focusTarget = last.focusTarget)

\* a pinch in FOCUS mode left the focus target null although a photo exists
C10_Witness ==
    /\ SawHand /\ PinchDist(SeenHand) < 5 /\ last.mode = "FOCUS"
    /\ focusTarget = Null
    /\ PhotoMeshes # {}

====
